---- MODULE Spec2Model ----
(***************************************************************************)
(* KubeStateProcessor (utils/kubernetes/kube_state_processor.py).          *)
(*                                                                         *)
(* One behaviour is one call process(message, **kwargs).  The family name, *)
(* the keyword context and the number of samples of the message are fixed  *)
(* by Init; the samples themselves are read one by one as the handler's    *)
(* for statement reaches them.  Every call handed to the gauge or the      *)
(* service-check output is recorded: emitted holds the calls made for the  *)
(* sample at hand, ncalls counts the calls made since process was entered. *)
(*                                                                         *)
(* Samples are well-formed decoded messages (each has its label sequence   *)
(* and its gauge).  Gauge values are integers standing for the floats.     *)
(* Family names that are special method names of every Python object       *)
(* (__init__, __class__, ...) are outside FamilyNames.                     *)
(***************************************************************************)
EXTENDS Integers, Sequences, FiniteSets, TLC

VARIABLES message_name, kwargs, todo, pc, metric, emitted, ncalls, nsamples,
          cond, exc, debug

vars == <<message_name, kwargs, todo, pc, metric, emitted, ncalls, nsamples,
          cond, exc, debug>>

(* ---------------------------- bounds ----------------------------------- *)

MaxSamples == 3

MaxLabels == 2

(* ---------------------------- input domains ---------------------------- *)

HandlerNames ==
    { "kube_node_status_capacity_cpu_cores",
      "kube_node_status_capacity_memory_bytes",
      "kube_node_status_capacity_pods",
      "kube_node_status_allocateable_cpu_cores",
      "kube_node_status_allocateable_memory_bytes",
      "kube_node_status_allocateable_pods",
      "kube_deployment_status_replicas_available",
      "kube_deployment_status_replicas_unavailable",
      "kube_deployment_status_replicas_updated",
      "kube_deployment_spec_replicas",
      "kube_node_status_ready",
      "kube_node_status_out_of_disk",
      "kube_pod_status_ready" }

HelperNames == { "process", "_eval_metric_condition", "_extract_label_value" }

InstanceAttributeNames == { "kube_check", "log", "gauge" }

UnknownNames == { "kube_pod_info", "kube_node_info" }

FamilyNames ==
    HandlerNames \cup HelperNames \cup InstanceAttributeNames \cup UnknownNames

NodeGaugeNames ==
    { "kube_node_status_capacity_cpu_cores",
      "kube_node_status_capacity_memory_bytes",
      "kube_node_status_capacity_pods",
      "kube_node_status_allocateable_cpu_cores",
      "kube_node_status_allocateable_memory_bytes",
      "kube_node_status_allocateable_pods" }

DeploymentNames ==
    { "kube_deployment_status_replicas_available",
      "kube_deployment_status_replicas_unavailable",
      "kube_deployment_status_replicas_updated",
      "kube_deployment_spec_replicas" }

Labels ==
    { [name |-> "condition", value |-> "true"],
      [name |-> "condition", value |-> "false"],
      [name |-> "condition", value |-> "unknown"],
      [name |-> "condition", value |-> "True"],
      [name |-> "node", value |-> "nodeA"],
      [name |-> "pod", value |-> "pod-a"],
      [name |-> "pod", value |-> "pod-b"],
      [name |-> "namespace", value |-> "default"] }

GaugeValues == { 0, 1, 2 }

LabelSeqs == UNION { [1..n -> Labels] : n \in 0..MaxLabels }

Samples == [label : LabelSeqs, gauge : [value : GaugeValues]]

\* kwargs of process.  kind says what kwargs holds under 'instance':
\*   no_instance    kwargs has no 'instance' key
\*   no_key         'instance' is a mapping without 'status_ready_for_pods'
\*   configured     'instance' is a mapping whose 'status_ready_for_pods' is pods
\*   not_a_mapping  'instance' is an object without a get method (None, a list)
Contexts ==
    { [kind |-> "no_instance", pods |-> <<>>],
      [kind |-> "no_key", pods |-> <<>>],
      [kind |-> "configured", pods |-> <<>>],
      [kind |-> "configured", pods |-> <<"pod-a">>],
      [kind |-> "not_a_mapping", pods |-> <<>>] }

(* ---------------------------- Python values ---------------------------- *)

\* None, and a value that is not None
None == [some |-> FALSE, value |-> ""]

Some(v) == [some |-> TRUE, value |-> v]

NoneBool == [some |-> FALSE, value |-> FALSE]

SomeBool(b) == [some |-> TRUE, value |-> b]

\* '{}'.format(x) for x a string or None
format(x) == IF x.some THEN x.value ELSE "None"

\* bool(x) for x a number
bool(x) == x # 0

\* truth value of x, a bool or None
truthy(x) == x.some /\ x.value

\* no sample at hand
NoMetric == [none |-> TRUE]

\* name, val of a handler before _eval_metric_condition has run
NotEvaluated == [evaluated |-> FALSE, name |-> None, val |-> NoneBool]

OK == "OK"

WARNING == "WARNING"

CRITICAL == "CRITICAL"

UNKNOWN == "UNKNOWN"

gauge(metric_name, val, tags) ==
    [kind |-> "gauge", name |-> metric_name, value |-> val, tags |-> tags]

service_check(check_name, status, tags) ==
    [kind |-> "service_check", name |-> check_name, status |-> status, tags |-> tags]

\* what one pass of a handler's loop body did
Result(calls, e, c) == [emitted |-> calls, exc |-> e, cond |-> c]

(* ---------------------------- helpers ---------------------------------- *)

RECURSIVE scan_condition(_, _, _)
scan_condition(labels, i, val) ==
    IF i > Len(labels) THEN <<None, NoneBool>>
    ELSE IF labels[i].name = "condition" THEN <<Some(labels[i].value), SomeBool(val)>>
    ELSE scan_condition(labels, i + 1, val)

\* _eval_metric_condition returning val on its last line as well
_eval_metric_condition_val(m) ==
    LET c == scan_condition(m.label, 1, bool(m.gauge.value))
    IN  IF c[1].some THEN c ELSE <<None, SomeBool(bool(m.gauge.value))>>

_eval_metric_condition(m) ==
    LET val == bool(m.gauge.value)
    IN  scan_condition(m.label, 1, val)

RECURSIVE scan_label(_, _, _)
scan_label(name, labels, i) ==
    IF i > Len(labels) THEN None
    ELSE IF labels[i].name = name THEN Some(labels[i].value)
    ELSE scan_label(name, labels, i + 1)

_extract_label_value(name, labels) == scan_label(name, labels, 1)

Evaluated(c) == [evaluated |-> TRUE, name |-> c[1], val |-> c[2]]

(* ---------------------------- handlers: loop bodies -------------------- *)

\* the cpu-capacity handler written as its five siblings are
kube_node_status_capacity_cpu_cores_by_name(m) ==
    Result(<<gauge("kubernetes.node.cpu_capacity", m.gauge.value,
                   <<"host:" \o format(_extract_label_value("node", m.label))>>)>>,
           "", NotEvaluated)

kube_node_status_capacity_cpu_cores(m) ==
    LET metric_name == "kubernetes.node.cpu_capacity"
        val == m.gauge.value
    IN  IF Len(m.label) = 0
        THEN Result(<<>>, "IndexError", NotEvaluated)
        ELSE Result(<<gauge(metric_name, val, <<"host:" \o format(Some(m.label[1].value))>>)>>,
                    "", NotEvaluated)

node_gauge(metric_name, m) ==
    LET val == m.gauge.value
        tags == <<"host:" \o format(_extract_label_value("node", m.label))>>
    IN  Result(<<gauge(metric_name, val, tags)>>, "", NotEvaluated)

kube_node_status_capacity_memory_bytes(m) ==
    node_gauge("kubernetes.node.memory_capacity", m)

kube_node_status_capacity_pods(m) ==
    node_gauge("kubernetes.node.pods_capacity", m)

kube_node_status_allocateable_cpu_cores(m) ==
    node_gauge("kubernetes.node.cpu_allocatable", m)

kube_node_status_allocateable_memory_bytes(m) ==
    node_gauge("kubernetes.node.memory_allocatable", m)

kube_node_status_allocateable_pods(m) ==
    node_gauge("kubernetes.node.pods_allocatable", m)

\* the tags of a deployment sample built back to front
RECURSIVE label_tags_reversed(_, _)
label_tags_reversed(labels, i) ==
    IF i > Len(labels) THEN <<>>
    ELSE label_tags_reversed(labels, i + 1) \o <<labels[i].name \o ":" \o labels[i].value>>

RECURSIVE label_tags(_, _)
label_tags(labels, i) ==
    IF i > Len(labels) THEN <<>>
    ELSE <<labels[i].name \o ":" \o labels[i].value>> \o label_tags(labels, i + 1)

deployment_gauge(metric_name, m) ==
    LET val == m.gauge.value
        tags == label_tags(m.label, 1)
    IN  Result(<<gauge(metric_name, val, tags)>>, "", NotEvaluated)

kube_deployment_status_replicas_available(m) ==
    deployment_gauge("kubernetes.deployment.replicas_available", m)

kube_deployment_status_replicas_unavailable(m) ==
    deployment_gauge("kubernetes.deployment.replicas_unavailable", m)

kube_deployment_status_replicas_updated(m) ==
    deployment_gauge("kubernetes.deployment.replicas_updated", m)

kube_deployment_spec_replicas(m) ==
    deployment_gauge("kubernetes.deployment.replicas_desired", m)

kube_node_status_ready(m) ==
    LET service_check_name == "kube_node_status_ready"
        c == _eval_metric_condition(m)
        name == c[1]
        val == c[2]
        tags == <<"host:" \o format(_extract_label_value("node", m.label))>>
        calls ==
            IF name = Some("true") /\ truthy(val)
            THEN <<service_check(service_check_name, OK, tags)>>
            ELSE IF name = Some("false") /\ truthy(val)
            THEN <<service_check(service_check_name, CRITICAL, tags)>>
            ELSE IF name = Some("unknown") /\ truthy(val)
            THEN <<service_check(service_check_name, UNKNOWN, tags)>>
            ELSE <<>>
    IN  Result(calls, "", Evaluated(c))

\* the out-of-disk handler with the statuses of the readiness handler
kube_node_status_out_of_disk_not_inverted(m) ==
    LET r == kube_node_status_ready(m)
    IN  Result([i \in 1..Len(r.emitted) |->
                   service_check("kube_node_status_out_of_disk",
                                 r.emitted[i].status, r.emitted[i].tags)],
               r.exc, r.cond)

kube_node_status_out_of_disk(m) ==
    LET service_check_name == "kube_node_status_out_of_disk"
        c == _eval_metric_condition(m)
        name == c[1]
        val == c[2]
        tags == <<"host:" \o format(_extract_label_value("node", m.label))>>
        calls ==
            IF name = Some("true") /\ truthy(val)
            THEN <<service_check(service_check_name, CRITICAL, tags)>>
            ELSE IF name = Some("false") /\ truthy(val)
            THEN <<service_check(service_check_name, OK, tags)>>
            ELSE IF name = Some("unknown") /\ truthy(val)
            THEN <<service_check(service_check_name, UNKNOWN, tags)>>
            ELSE <<>>
    IN  Result(calls, "", Evaluated(c))

\* configured_pods with an empty list as the default of the second get
configured_pods_default_list(kw) ==
    IF kw.kind = "configured" THEN Some(kw.pods) ELSE Some(<<>>)

\* kwargs.get('instance', {}).get('status_ready_for_pods'), kwargs well typed
configured_pods(kw) ==
    IF kw.kind = "configured" THEN Some(kw.pods) ELSE [some |-> FALSE, value |-> <<>>]

\* the allow-list test letting every named pod through
in_list_any_pod(pod_name, pods) == pod_name.some

\* pod_name in configured_pods
in_list(pod_name, pods) ==
    pod_name.some /\ \E i \in 1..Len(pods) : pods[i] = pod_name.value

\* the pod-readiness handler whose first test leaves the condition name out
kube_pod_status_ready_any_true(m, kw) ==
    LET service_check_name == "kube_pod_status_ready"
        pod_name == _extract_label_value("pod", m.label)
    IN  IF ~ in_list(pod_name, configured_pods(kw).value)
        THEN Result(<<>>, "", NotEvaluated)
        ELSE
        LET c == _eval_metric_condition(m)
            name == c[1]
            val == c[2]
            tags == << "namespace:" \o format(_extract_label_value("namespace", m.label)),
                       "pod:" \o format(pod_name) >>
            first ==
                IF truthy(val)
                THEN <<service_check(service_check_name, OK, tags)>>
                ELSE <<>>
            second ==
                IF name = Some("false") /\ truthy(val)
                THEN <<service_check(service_check_name, CRITICAL, tags)>>
                ELSE IF name = Some("unknown") /\ truthy(val)
                THEN <<service_check(service_check_name, UNKNOWN, tags)>>
                ELSE <<>>
        IN  Result(first \o second, "", Evaluated(c))

kube_pod_status_ready(m, kw) ==
    LET service_check_name == "kube_pod_status_ready"
        pod_name == _extract_label_value("pod", m.label)
    IN  IF ~ in_list(pod_name, configured_pods(kw).value)
        THEN Result(<<>>, "", NotEvaluated)
        ELSE
        LET c == _eval_metric_condition(m)
            name == c[1]
            val == c[2]
            tags == << "namespace:" \o format(_extract_label_value("namespace", m.label)),
                       "pod:" \o format(pod_name) >>
            first ==
                IF name = Some("true") /\ truthy(val)
                THEN <<service_check(service_check_name, OK, tags)>>
                ELSE <<>>
            second ==
                IF name = Some("false") /\ truthy(val)
                THEN <<service_check(service_check_name, CRITICAL, tags)>>
                ELSE IF name = Some("unknown") /\ truthy(val)
                THEN <<service_check(service_check_name, UNKNOWN, tags)>>
                ELSE <<>>
        IN  Result(first \o second, "", Evaluated(c))

\* the loop body of the handler bound to the family name
handler(name, m, kw) ==
    CASE name = "kube_node_status_capacity_cpu_cores" ->
             kube_node_status_capacity_cpu_cores(m)
      [] name = "kube_node_status_capacity_memory_bytes" ->
             kube_node_status_capacity_memory_bytes(m)
      [] name = "kube_node_status_capacity_pods" ->
             kube_node_status_capacity_pods(m)
      [] name = "kube_node_status_allocateable_cpu_cores" ->
             kube_node_status_allocateable_cpu_cores(m)
      [] name = "kube_node_status_allocateable_memory_bytes" ->
             kube_node_status_allocateable_memory_bytes(m)
      [] name = "kube_node_status_allocateable_pods" ->
             kube_node_status_allocateable_pods(m)
      [] name = "kube_deployment_status_replicas_available" ->
             kube_deployment_status_replicas_available(m)
      [] name = "kube_deployment_status_replicas_unavailable" ->
             kube_deployment_status_replicas_unavailable(m)
      [] name = "kube_deployment_status_replicas_updated" ->
             kube_deployment_status_replicas_updated(m)
      [] name = "kube_deployment_spec_replicas" ->
             kube_deployment_spec_replicas(m)
      [] name = "kube_node_status_ready" ->
             kube_node_status_ready(m)
      [] name = "kube_node_status_out_of_disk" ->
             kube_node_status_out_of_disk(m)
      [] name = "kube_pod_status_ready" ->
             kube_pod_status_ready(m, kw)

(* ---------------------------- process ---------------------------------- *)

\* getattr(self, name): what the attribute of the processor is
getattr(name) ==
    IF name \in HandlerNames THEN "handler"
    ELSE IF name \in HelperNames THEN "method"
    ELSE IF name = "gauge" THEN "partial"
    ELSE IF name \in InstanceAttributeNames THEN "object"
    ELSE "AttributeError"

\* the try statement of process: where an exception raised under it ends
outcome(e) ==
    IF e = "" THEN "returned"
    ELSE IF e = "AttributeError" THEN "returned"
    ELSE "raised"

\* the debug line process writes for the exception it catches
unable(e, name) ==
    IF e = "AttributeError" THEN "Unable to handle metric: " \o name ELSE ""

\* a for statement that goes on to the next sample after a failure
after_body_goes_on(e, remaining) ==
    IF remaining = 0 THEN "returned" ELSE "handled"

\* the for statement of a handler after one pass of its body
after_body(e, remaining) ==
    IF e # "" THEN outcome(e)
    ELSE IF remaining = 0 THEN "returned"
    ELSE "handled"

\* the exception raised before any sample is read, "" if none
\*   handler: kube_pod_status_ready reads kwargs; the others go to their loop
\*   method:  process recurses without end; the helpers are called with the
\*            message in place of their arguments
\*   object:  kube_check and log are not callable
entry_exc(name, kw) ==
    CASE getattr(name) = "AttributeError" -> "AttributeError"
      [] getattr(name) = "handler" ->
             IF name = "kube_pod_status_ready" /\ kw.kind = "not_a_mapping"
             THEN "AttributeError" ELSE ""
      [] getattr(name) = "method" ->
             IF name = "process" THEN "RuntimeError"
             ELSE IF name = "_eval_metric_condition" /\ kw.kind = "no_instance"
             THEN "AttributeError"
             ELSE "TypeError"
      [] getattr(name) = "object" -> "TypeError"
      [] getattr(name) = "partial" -> ""

no_pods_configured ==
    "no pods configured, kube_pod_status_ready has nothing to do, returning..."

\* process up to the first sample: the attribute lookup, the call, and the
\* statements of the handler before its loop
process ==
    /\ pc = "start"
    /\ LET attr == getattr(message_name)
           e == entry_exc(message_name, kwargs)
       IN  IF e # ""
           THEN /\ exc' = e
                /\ pc' = outcome(e)
                /\ debug' = unable(e, message_name)
                /\ UNCHANGED <<emitted, ncalls>>
           ELSE IF attr = "partial"
           THEN \* publish_gauge(kube_check, message, **kwargs): the gauge output
                \* is called with the message; what it does with it is its own
                /\ emitted' = <<gauge(message_name, 0, <<>>)>>
                /\ ncalls' = ncalls + 1
                /\ \E e2 \in {"", "TypeError"} :
                      /\ exc' = e2
                      /\ pc' = outcome(e2)
                /\ debug' = ""
           ELSE IF message_name = "kube_pod_status_ready" /\ ~ configured_pods(kwargs).some
           THEN /\ debug' = no_pods_configured
                /\ pc' = "returned"
                /\ UNCHANGED <<emitted, ncalls, exc>>
           ELSE /\ pc' = IF todo = 0 THEN "returned" ELSE "loop"
                /\ UNCHANGED <<emitted, ncalls, exc, debug>>
    /\ UNCHANGED <<message_name, kwargs, todo, metric, nsamples, cond>>

\* one pass of the handler's loop: the next sample of message.metric is m
handle_metric ==
    /\ pc = "loop"
    /\ todo > 0
    /\ \E m \in Samples :
          LET r == handler(message_name, m, kwargs)
          IN  /\ metric' = m
              /\ emitted' = r.emitted
              /\ ncalls' = ncalls + Len(r.emitted)
              /\ cond' = r.cond
              /\ exc' = r.exc
              /\ debug' = unable(r.exc, message_name)
              /\ pc' = after_body(r.exc, todo - 1)
    /\ todo' = todo - 1
    /\ nsamples' = nsamples + 1
    /\ UNCHANGED <<message_name, kwargs>>

\* the for statement goes on to the next sample: the locals of the pass
\* before are overwritten
next_metric ==
    /\ pc = "handled"
    /\ pc' = "loop"
    /\ metric' = NoMetric
    /\ emitted' = <<>>
    /\ cond' = NotEvaluated
    /\ UNCHANGED <<message_name, kwargs, todo, ncalls, nsamples, exc, debug>>

Init ==
    /\ message_name \in FamilyNames
    /\ kwargs \in Contexts
    /\ todo \in 0..MaxSamples
    /\ pc = "start"
    /\ metric = NoMetric
    /\ emitted = <<>>
    /\ ncalls = 0
    /\ nsamples = 0
    /\ cond = NotEvaluated
    /\ exc = ""
    /\ debug = ""

Next ==
    \/ process
    \/ handle_metric
    \/ next_metric

Spec == Init /\ [][Next]_vars

(* ---------------------------- properties ------------------------------- *)

\* a sample has a label of that name
HasLabel(m, n) == \E i \in 1..Len(m.label) : m.label[i].name = n

\* the value of the first label of that name
FirstValue(m, n) ==
    LET i == CHOOSE k \in 1..Len(m.label) :
                 /\ m.label[k].name = n
                 /\ \A j \in 1..(k - 1) : m.label[j].name # n
    IN  m.label[i].value

\* the value of the first label of that name as a tag shows it
Rendered(m, n) == IF HasLabel(m, n) THEN FirstValue(m, n) ELSE "None"

\* the loop body has run on the sample metric
Handled == metric # NoMetric

Allowed(p) == \E i \in 1..Len(kwargs.pods) : kwargs.pods[i] = p

Statuses(calls) == [i \in 1..Len(calls) |-> calls[i].status]

EmittedName(n) ==
    CASE n = "kube_node_status_capacity_cpu_cores" -> "kubernetes.node.cpu_capacity"
      [] n = "kube_node_status_capacity_memory_bytes" -> "kubernetes.node.memory_capacity"
      [] n = "kube_node_status_capacity_pods" -> "kubernetes.node.pods_capacity"
      [] n = "kube_node_status_allocateable_cpu_cores" -> "kubernetes.node.cpu_allocatable"
      [] n = "kube_node_status_allocateable_memory_bytes" -> "kubernetes.node.memory_allocatable"
      [] n = "kube_node_status_allocateable_pods" -> "kubernetes.node.pods_allocatable"
      [] n = "kube_deployment_status_replicas_available" -> "kubernetes.deployment.replicas_available"
      [] n = "kube_deployment_status_replicas_unavailable" -> "kubernetes.deployment.replicas_unavailable"
      [] n = "kube_deployment_status_replicas_updated" -> "kubernetes.deployment.replicas_updated"
      [] n = "kube_deployment_spec_replicas" -> "kubernetes.deployment.replicas_desired"

\* C1: for every family name that is not one of the 13 handler names, process
\* returns normally (it does not raise) and calls neither the gauge output nor
\* the service-check output.
C1_UnregisteredFamilyIsSilent ==
    (message_name \notin HandlerNames /\ pc # "start")
        => (pc = "returned" /\ ncalls = 0)

\* C2: a failure of any kind inside a registered handler is not caught by
\* process: the call ends raising, and the "Unable to handle metric" line is
\* written only when the family has no handler.
C2_HandlerFailurePropagates ==
    (message_name \in HandlerNames /\ exc # "")
        => (pc = "raised" /\ debug = "")

\* C3: in the node-readiness and node-out-of-disk families a sample whose first
\* condition label is true, false or unknown and whose gauge is nonzero gives
\* exactly one service check, any other sample none; the status is
\* OK/CRITICAL/UNKNOWN for readiness and CRITICAL/OK/UNKNOWN for out-of-disk,
\* the check is named after the family, the tags are ['host:<node label>'], and
\* no service check of any family has status WARNING.
C3_NodeConditionChecks ==
    /\ \A i \in 1..Len(emitted) :
           emitted[i].kind = "service_check" => emitted[i].status # "WARNING"
    /\ (message_name \in {"kube_node_status_ready", "kube_node_status_out_of_disk"}
        /\ Handled)
          => LET asserted ==
                     /\ HasLabel(metric, "condition")
                     /\ FirstValue(metric, "condition") \in {"true", "false", "unknown"}
                     /\ metric.gauge.value # 0
                 v == FirstValue(metric, "condition")
                 status ==
                     IF message_name = "kube_node_status_ready"
                     THEN (IF v = "true" THEN "OK"
                           ELSE IF v = "false" THEN "CRITICAL" ELSE "UNKNOWN")
                     ELSE (IF v = "true" THEN "CRITICAL"
                           ELSE IF v = "false" THEN "OK" ELSE "UNKNOWN")
             IN  /\ exc = ""
                 /\ IF asserted
                    THEN emitted = << [kind |-> "service_check",
                                       name |-> message_name,
                                       status |-> status,
                                       tags |-> <<"host:" \o Rendered(metric, "node")>>] >>
                    ELSE emitted = <<>>

C3_Witness ==
    /\ message_name = "kube_node_status_out_of_disk"
    /\ Handled
    /\ Len(emitted) = 1
    /\ emitted[1].status = "CRITICAL"
    /\ metric.gauge.value = 2

\* C4: pod-readiness called without an allow-list (no 'instance' key, or an
\* 'instance' mapping without 'status_ready_for_pods') makes no gauge and no
\* service-check call, reads no sample, and returns normally.
C4_NoAllowListNoEmission ==
    (message_name = "kube_pod_status_ready"
     /\ kwargs.kind \in {"no_instance", "no_key"}
     /\ pc # "start")
        => /\ pc = "returned"
           /\ exc = ""
           /\ ncalls = 0
           /\ emitted = <<>>
           /\ ~ Handled
           /\ debug = no_pods_configured

C4_Witness ==
    /\ message_name = "kube_pod_status_ready"
    /\ kwargs.kind = "no_key"
    /\ todo = MaxSamples
    /\ pc = "returned"

C6_NodeGauges ==
    /\ (message_name \in NodeGaugeNames /\ Handled
        /\ (message_name = "kube_node_status_capacity_cpu_cores"
                => Len(metric.label) > 0))
          => LET v == IF message_name = "kube_node_status_capacity_cpu_cores"
                      THEN metric.label[1].value
                      ELSE Rendered(metric, "node")
             IN  /\ exc = ""
                 /\ emitted = << [kind |-> "gauge",
                                  name |-> EmittedName(message_name),
                                  value |-> metric.gauge.value,
                                  tags |-> <<"host:" \o v>>] >>
                 /\ ncalls = nsamples
    /\ (message_name \in NodeGaugeNames /\ pc = "returned")
          => (todo = 0 /\ ncalls = nsamples)

C6_Witness ==
    /\ message_name = "kube_node_status_capacity_cpu_cores"
    /\ pc = "returned"
    /\ nsamples = 2
    /\ metric.label[1].name = "pod"
    /\ emitted[1].tags = <<"host:pod-b">>

\* C7: each of the four deployment replica families gives exactly one gauge per
\* sample, in sample order, named by the mapping table, with the sample's gauge
\* value and one tag '<name>:<value>' per label of the sample, in label order
\* (duplicated names kept, no labels gives no tags).
C7_DeploymentGauges ==
    /\ (message_name \in DeploymentNames /\ Handled)
          => /\ exc = ""
             /\ Len(emitted) = 1
             /\ emitted[1].kind = "gauge"
             /\ emitted[1].name = EmittedName(message_name)
             /\ emitted[1].value = metric.gauge.value
             /\ Len(emitted[1].tags) = Len(metric.label)
             /\ \A i \in 1..Len(metric.label) :
                    emitted[1].tags[i] =
                        metric.label[i].name \o ":" \o metric.label[i].value
             /\ ncalls = nsamples
    /\ (message_name \in DeploymentNames /\ pc = "returned")
          => (todo = 0 /\ ncalls = nsamples)

C7_Witness ==
    /\ message_name = "kube_deployment_spec_replicas"
    /\ pc = "returned"
    /\ nsamples = 2
    /\ emitted[1].tags = <<"pod:pod-a", "pod:pod-b">>

\* C8: when label extraction fails on the k-th sample of a family (a
\* cpu-capacity sample without labels), the calls made for the samples before
\* it stand, and no call is made for that sample or for any later one: process
\* ends there.
C8_FailureKeepsEarlierCalls ==
    /\ (message_name = "kube_node_status_capacity_cpu_cores" /\ Handled
        /\ Len(metric.label) = 0)
          => /\ exc = "IndexError"
             /\ pc = "raised"
             /\ emitted = <<>>
             /\ ncalls = nsamples - 1
    /\ (Handled /\ exc # "")
          => /\ emitted = <<>>
             /\ pc \in {"raised", "returned"}
             /\ ~ ENABLED Next

C8_Witness ==
    /\ exc = "IndexError"
    /\ pc = "raised"
    /\ nsamples = 2
    /\ ncalls = 1
    /\ todo = 1

\* C9: for a sample whose pod is in the allow-list the pod-readiness handler
\* makes the service checks, with the statuses, that the node-readiness handler
\* makes for the same sample: at most one call, OK for true, CRITICAL for
\* false, UNKNOWN for unknown, and only when the gauge is nonzero.
C9_PodStatusesAsNode ==
    (message_name = "kube_pod_status_ready" /\ kwargs.kind = "configured" /\ Handled
     /\ HasLabel(metric, "pod") /\ Allowed(FirstValue(metric, "pod")))
        => /\ Statuses(emitted) = Statuses(kube_node_status_ready(metric).emitted)
           /\ Len(emitted) <= 1
           /\ Len(emitted) = 1 <=>
                  /\ metric.gauge.value # 0
                  /\ Rendered(metric, "condition") \in {"true", "false", "unknown"}
           /\ Len(emitted) = 1 =>
                  emitted[1].status =
                      (IF FirstValue(metric, "condition") = "true" THEN "OK"
                       ELSE IF FirstValue(metric, "condition") = "false" THEN "CRITICAL"
                       ELSE "UNKNOWN")

C9_Witness ==
    /\ message_name = "kube_pod_status_ready"
    /\ Handled
    /\ Len(emitted) = 1
    /\ emitted[1].status = "CRITICAL"

\* C10 as stated: _eval_metric_condition gives (None, truthiness of the gauge)
\* for a sample without a condition label, and (value of the first condition
\* label, truthiness of the gauge) for a sample with one.
C10_AbsentConditionKeepsTruthiness ==
    cond.evaluated
        => IF HasLabel(metric, "condition")
           THEN /\ cond.name = Some(FirstValue(metric, "condition"))
                /\ cond.val = SomeBool(metric.gauge.value # 0)
           ELSE /\ cond.name = None
                /\ cond.val = SomeBool(metric.gauge.value # 0)

\* C10 amended: _eval_metric_condition gives (None, None) for a sample without
\* a condition label, whatever its gauge, and (value of the first condition
\* label, truthiness of the gauge) for a sample with one.
C10_EvalMetricCondition ==
    /\ cond.evaluated
        => IF HasLabel(metric, "condition")
           THEN /\ cond.name = Some(FirstValue(metric, "condition"))
                /\ cond.val = SomeBool(metric.gauge.value # 0)
           ELSE /\ cond.name = None
                /\ cond.val = NoneBool
    /\ (Handled /\ message_name \in {"kube_node_status_ready",
                                     "kube_node_status_out_of_disk"})
        => cond.evaluated

C10_Witness ==
    /\ cond.evaluated
    /\ ~ HasLabel(metric, "condition")
    /\ metric.gauge.value = 1
    /\ cond.val = NoneBool

====
